---- MODULE Spec2Model ----
(***************************************************************************)
(* Model of the seedr terminal client: the bubbletea model of the TUI      *)
(* (model.Update and the commands it starts) and the transfer goroutines   *)
(* of cmdDownloadFile and cmdBatchDownloadFiles.                           *)
(*                                                                         *)
(* Strings the code takes apart (the folder path) are sequences of         *)
(* one-character strings, so that strings.Split and strings.Join are       *)
(* computed as Go computes them.  Fields of the model that only drive the  *)
(* rendering (spinner, progress bar, list title, status and chosen         *)
(* messages, window size, the toggles of the list) are not part of the     *)
(* state.  The list shows all its items on one page, so the list's         *)
(* page keys move nothing.                                                 *)
(***************************************************************************)
EXTENDS Integers, Sequences, FiniteSets, TLC

\* ------------------------------------------------------------------ bounds

\* longest folder-id stack the Enter key is allowed to build
MaxDepth == 3
\* most files in one batch transfer
MaxBatch == 3
\* largest content length a response declares, in units of half a read buffer
MaxLen == 3
MaxRemove == 2

\* ------------------------------------------------------------ the remote

\* itemType (src/unnamed/part_001:22-26)
TypeFolder == "TypeFolder"
TypeFile == "TypeFile"
TypeTorrent == "TypeTorrent"

\* an item as fetchContents builds it: marked is the zero value, false
NewItem(id, typ, title) == [id |-> id, itemType |-> typ, title |-> title, marked |-> FALSE]

\* the root folder id newModel starts at
RootID == "0"

FolderIDs == {"0", "1", "3"}

\* What the account holds: the root has a folder and a file.
RemoteContents ==
  [f \in FolderIDs |->
     CASE f = "0" -> << NewItem("1", TypeFolder, <<"a">>),
                        NewItem("10", TypeFile, <<"f">>) >>
       [] f = "1" -> << NewItem("3", TypeFolder, <<"c", "d">>),
                        NewItem("11", TypeFile, <<"g">>) >>
       [] f = "3" -> << NewItem("21", TypeTorrent, <<"u">>) >>]

\* The answers client.ListContents can give for a folder: an error, the
\* folder's items, or no item at all (the folder was emptied remotely).
ListContentsResults(f) ==
  { [ok |-> FALSE, items |-> <<>>],
    [ok |-> TRUE, items |-> RemoteContents[f]],
    [ok |-> TRUE, items |-> <<>>] }

\* fetchContents: the message a fetch of folder f ends with
fetchContents(r) ==
  IF ~r.ok THEN [type |-> "errMsg", items |-> <<>>]
  ELSE IF Len(r.items) = 0 THEN [type |-> "emptyContentsMsg", items |-> <<>>]
  ELSE [type |-> "contentsMsg", items |-> r.items]

\* ------------------------------------------------------------- strings

RECURSIVE SplitAcc(_, _, _)
SplitAcc(s, cur, acc) ==
  IF s = <<>> THEN Append(acc, cur)
  ELSE IF Head(s) = "/" THEN SplitAcc(Tail(s), <<>>, Append(acc, cur))
  ELSE SplitAcc(Tail(s), Append(cur, Head(s)), acc)

\* strings.Split(s, "/")
Split(s) == SplitAcc(s, <<>>, <<>>)

RECURSIVE Join(_)
\* strings.Join(parts, "/")
Join(parts) ==
  IF parts = <<>> THEN <<>>
  ELSE IF Len(parts) = 1 THEN parts[1]
  ELSE parts[1] \o <<"/">> \o Join(Tail(parts))

\* ------------------------------------------------------------- state

VARIABLES
  state,              \* model.state
  err,                \* model.err ("nil" when absent)
  quitting,           \* model.quitting
  folderHistory,      \* model.folderHistory
  currentFolderID,    \* model.currentFolderID
  currentFolderPath,  \* model.currentFolderPath
  contentCache,       \* model.contentCache: folder id -> items of the contentsMsg
  markedFiles,        \* model.markedFiles: file id -> item
  listItems,          \* model.list: its items
  listIndex,          \* model.list: the cursor, 1-based
  filterState,        \* model.list.FilterState()
  pending,            \* commands bubbletea is running, each ends in one message
  lastMsg,            \* the message Update handled last
  listCalls           \* calls of client.ListContents per folder id since the
                      \* cache entry of that folder was last deleted

\* the state of a transfer goroutine and of its channel
VARIABLES
  tMode,              \* "single": cmdDownloadFile, "batch": cmdBatchDownloadFiles
  tFiles,             \* the files handed to the transfer, in order
  tIdx,               \* batch: the position of the range loop
  tPc,                \* the statement the goroutine is at
  contentLength,      \* resp.ContentLength
  remaining,          \* bytes of the response body not yet read
  downloadedBytes,    \* downloadedBytes
  readErr,            \* readErr of the last Read
  batchErrors,        \* batchErrors, each error with the position of its file
  msgChan,            \* the message the goroutine is blocked sending, or NoMsg
  msgChanClosed,      \* close(msgChan) has run
  delivered,          \* the messages received from msgChan, in order, since the
                      \* goroutine last started on a file
  attempted,          \* positions whose URL resolution was started
  outcome,            \* per position, the stage at which the file failed, or "ok"
  created             \* positions whose local file os.Create has made

\* the transfer goroutines started and not yet returned
VARIABLES
  transfers

uiVars == << state, err, quitting, folderHistory, currentFolderID, currentFolderPath,
             contentCache, markedFiles, listItems, listIndex, filterState, pending,
             lastMsg, listCalls >>

tVars == << tMode, tFiles, tIdx, tPc, contentLength, remaining, downloadedBytes, readErr,
            batchErrors, msgChan, msgChanClosed, delivered, attempted, outcome, created >>

\* the Client of package seedrcc, its Token, and the goroutines calling its
\* API methods
VARIABLES
  token,              \* Client.token: AccessToken, RefreshToken, DeviceCode
  mu,                 \* Client.mu: the goroutine holding it, or NoHolder
  onTokenRefresh,     \* Client.onTokenRefresh is not nil
  cpc,                \* per goroutine, the statement of apiRequest it is at
  sentTokens,         \* per goroutine, params["access_token"] of the requests
                      \* the current call of apiRequest has sent, in order
  firstErr,           \* per goroutine, err of the first makeHTTPRequest
  refreshCalls,       \* per goroutine, calls of refreshAccessToken in the call
  refreshToken,       \* per goroutine, the local refreshToken of
                      \* refreshAccessToken
  refreshResp,        \* per goroutine, the response of the refresh request
  refreshErr,         \* per goroutine, the error refreshAccessToken returned
  callbackRuns,       \* per goroutine, calls of onTokenRefresh in the call
  apiErr,             \* per goroutine, the error apiRequest returns
  tokenFile,          \* the access token in token.txt, written by the callback
  issued              \* the access tokens the service has handed out

\* the lookup tables of package cmd and the account they are read from
VARIABLES
  allSeedrObjects,    \* allSeedrObjects: NilMap or the names stored
  objectNames,        \* objectNames
  account,            \* the contents of the account on the service
  lookupCalls,        \* calls of FetchObjectDetails that returned
  lookupListed,       \* ListContents calls the last FetchObjectDetails issued
  lookupNames,        \* the names the last FetchObjectDetails returned
  lookupErr,          \* the last FetchObjectDetails returned an error
  firstNames          \* the names the first FetchObjectDetails that returned
                      \* without error returned, or NoNames

cVars == << token, mu, onTokenRefresh, cpc, sentTokens, firstErr, refreshCalls,
            refreshToken, refreshResp, refreshErr, callbackRuns, apiErr, tokenFile,
            issued >>

lVars == << allSeedrObjects, objectNames, account, lookupCalls, lookupListed,
            lookupNames, lookupErr, firstNames >>

vars == << uiVars, tVars, transfers, cVars, lVars >>

stateLoading == "Loading"
stateDownloading == "Downloading"
stateReady == "Ready"
stateError == "Error"
stateEmpty == "Empty"

\* the nil list.Item: what a slot of the items holds once RemoveItem has moved
\* the items behind it forward
NilItem == [id |-> "nil", itemType |-> "nil", title |-> << >>, marked |-> FALSE]

\* list.Model.SelectedItem: nil when the cursor is past the items
HasSelected(items, idx) == idx >= 1 /\ idx <= Len(items) /\ items[idx] # NilItem

\* remove the element at position i
RemoveAt(s, i) == SubSeq(s, 1, i - 1) \o SubSeq(s, i + 1, Len(s))

\* an entry of a Go map: the key is absent, or present with a value
Absent == [present |-> FALSE, val |-> << >>]
Present(v) == [present |-> TRUE, val |-> v]

\* the ids of the items of the account: the keys markedFiles can hold
ItemIDs == {"1", "3", "10", "11", "21"}

\* number of keys of a map
MapLen(m) == Cardinality({k \in DOMAIN m : m[k].present})

\* newModel
InitUI ==
  /\ state = stateLoading
  /\ err = "nil"
  /\ quitting = FALSE
  /\ folderHistory = << RootID >>
  /\ currentFolderID = RootID
  /\ currentFolderPath = << "/" >>
  /\ contentCache = [f \in FolderIDs |-> Absent]
  /\ markedFiles = [f \in ItemIDs |-> Absent]
  /\ listItems = << >>
  /\ listIndex = 1
  /\ filterState = "Unfiltered"
  /\ pending = << [cmd |-> "fetchContents", arg |-> RootID] >>
  /\ lastMsg = "none"
  /\ listCalls = [f \in FolderIDs |-> 0]

\* ---------------------------------------------------- the list component

\* itemDelegate.Update on a key: "x" and "backspace" remove the selected item
\* from the list; without a selected item the delegate returns at once.
DelegateUpdate(k, items, idx) ==
  IF ~HasSelected(items, idx) THEN items
  ELSE IF k \in {"x", "backspace"} THEN RemoveAt(items, idx)
  ELSE items

\* the cursor keys of the list
CursorMove(k, items, idx) ==
  IF k = "up" THEN (IF idx > 1 THEN idx - 1 ELSE 1)
  ELSE IF k = "down" THEN (IF idx < Len(items) THEN idx + 1 ELSE idx)
  ELSE idx

\* The list's items are the first Len(items) slots of the array arr. The list
\* keeps the slice SetItems is given, and case contentsMsg and Back give it the
\* slice of the cache entry: the two share one array. The items identify it,
\* no item being in two folders.
SharesArray(items, arr) ==
  /\ Len(items) <= Len(arr)
  /\ items = SubSeq(arr, 1, Len(items))

\* m.RemoveItem(index) on the first n slots of arr, as the list of the bubbles
\* library does it: copy(items[index:], items[index+1:]), items[n-1] = nil,
\* items = items[:n-1]. The slots move in the array itself.
RemoveInPlace(arr, n, idx) ==
  [i \in 1..Len(arr) |->
     IF i < idx THEN arr[i]
     ELSE IF i < n THEN arr[i + 1]
     ELSE IF i = n THEN NilItem
     ELSE arr[i]]

\* m.list.Update(msg): the cache after it. A removal by the delegate is seen
\* through the cache entry that shares the array of the list.
ListCache(k, cache, items, idx) ==
  IF DelegateUpdate(k, items, idx) = items THEN cache
  ELSE [f \in DOMAIN cache |->
          IF cache[f].present /\ SharesArray(items, cache[f].val)
          THEN Present(RemoveInPlace(cache[f].val, Len(items), idx))
          ELSE cache[f]]

\* the removed items the cache holds: its nil slots
NilSlots(cache) ==
  Cardinality(UNION {{<< f, i >> : i \in {j \in 1..Len(cache[f].val) : cache[f].val[j] = NilItem}} :
                       f \in {g \in DOMAIN cache : cache[g].present}})

\* The user presses the key k: a removal the cache sees is made while the
\* cache holds less than MaxRemove removed items.
RemoveBound(k) ==
  ListCache(k, contentCache, listItems, listIndex) # contentCache
    => NilSlots(contentCache) < MaxRemove

\* m.list.Update(msg) for a key the list is browsing with: the list's own
\* keys, then the delegate
ListUpdate(k) ==
  /\ listIndex' = CursorMove(k, listItems, listIndex)
  /\ listItems' = DelegateUpdate(k, listItems, listIndex)

\* a key reaches the key switch of Update
KeyHandled(k) ==
  /\ ~quitting
  /\ filterState # "Filtering"
  /\ lastMsg' = k
  /\ UNCHANGED << tVars, cVars, lVars >>

\* ------------------------------------------------------ Update: the keys

\* case tea.KeyMsg with the list filtering: break, Update returns m, nil.
\* No key is a command then; lastMsg records "filterQuit" for a key of the
\* Quit binding and "filterKey" for any other.
KeyWhileFiltering ==
  /\ ~quitting
  /\ filterState = "Filtering"
  /\ lastMsg' \in {"filterKey", "filterQuit"}
  /\ UNCHANGED << tVars, cVars, lVars >>
  /\ UNCHANGED << state, err, quitting, folderHistory, currentFolderID, currentFolderPath,
                  contentCache, markedFiles, listItems, listIndex, filterState, pending,
                  listCalls >>
  /\ UNCHANGED transfers

\* key.Matches(msg, m.keys.Quit)
KeyQuit ==
  /\ KeyHandled("q")
  /\ quitting' = TRUE
  /\ UNCHANGED << state, err, folderHistory, currentFolderID, currentFolderPath,
                  contentCache, markedFiles, listItems, listIndex, filterState, pending,
                  listCalls >>
  /\ UNCHANGED transfers

\* mutant: Retry is accepted in every state
RetryGuardAny(st) == TRUE

\* the guard of Retry
RetryGuard(st) == st = stateError \/ st = stateEmpty

\* mutant: Retry keeps the cache entry
RetryCacheKept(cache, id) == cache

\* what Retry leaves of the cache
RetryCache(cache, id) == [cache EXCEPT ![id] = Absent]

\* mutant: Retry keeps the error
RetryErrKept(e) == e

\* m.err = nil of Retry
RetryErr(e) == "nil"

\* key.Matches(msg, m.keys.Retry)
KeyRetry ==
  /\ KeyHandled("r")
  /\ IF RetryGuard(state)
     THEN /\ state' = stateLoading
          /\ err' = RetryErr(err)
          /\ contentCache' = RetryCache(contentCache, currentFolderID)
          /\ listCalls' = [listCalls EXCEPT ![currentFolderID] = 0]
          /\ pending' = Append(pending, [cmd |-> "fetchContents", arg |-> currentFolderID])
          /\ UNCHANGED << listItems, listIndex >>
     ELSE /\ ListUpdate("r")
          /\ UNCHANGED << state, err, contentCache, listCalls, pending >>
  /\ UNCHANGED << quitting, folderHistory, currentFolderID, currentFolderPath,
                  markedFiles, filterState >>
  /\ UNCHANGED transfers

\* mutant: Enter puts the folder id in front of the stack
EnterHistoryPrepend(hist, cur) == << cur >> \o hist

\* the push of Enter
EnterHistory(hist, cur) == Append(hist, cur)

\* mutant: Enter joins with a slash at the root too
EnterPathAlwaysJoin(path, title) == path \o << "/" >> \o title

\* the path after Enter on a folder titled title
EnterPath(path, title) ==
  IF path = << "/" >> THEN title ELSE path \o << "/" >> \o title

\* key.Matches(msg, m.keys.Enter)
KeyEnter ==
  /\ KeyHandled("enter")
  /\ IF state = stateReady /\ ~HasSelected(listItems, listIndex)
     THEN UNCHANGED << state, folderHistory, currentFolderID, currentFolderPath,
                       listItems, listIndex, pending >>
     ELSE IF state = stateReady /\ listItems[listIndex].itemType = TypeFolder
     THEN /\ Len(folderHistory) < MaxDepth
          /\ folderHistory' = EnterHistory(folderHistory, currentFolderID)
          /\ currentFolderID' = listItems[listIndex].id
          /\ currentFolderPath' = EnterPath(currentFolderPath, listItems[listIndex].title)
          /\ listIndex' = 1
          /\ UNCHANGED listItems
          /\ IF contentCache[currentFolderID'].present
             THEN /\ state' = stateReady
                  /\ UNCHANGED pending
             ELSE /\ state' = stateLoading
                  /\ pending' = Append(pending, [cmd |-> "fetchContents", arg |-> currentFolderID'])
     ELSE /\ ListUpdate("enter")
          /\ UNCHANGED << state, folderHistory, currentFolderID, currentFolderPath, pending >>
  /\ UNCHANGED << err, quitting, contentCache, markedFiles, filterState, listCalls >>
  /\ UNCHANGED transfers

BackKeys == {"backspace", "h"}

\* mutant: Back is accepted in every state
BackGuardAny(st, hist) == Len(hist) > 1

\* the guard of Back
BackGuard(st, hist) == st = stateReady /\ Len(hist) > 1

\* the pop of Back
BackHistory(hist) == SubSeq(hist, 1, Len(hist) - 1)

\* prevFolderID: the last element of the popped stack
BackFolderID(hist) == hist[Len(hist)]

\* the path after Back
BackPath(path) ==
  IF path # << "/" >>
  THEN LET parts == Split(path) IN
       IF Len(parts) > 1
       THEN LET joined == Join(SubSeq(parts, 1, Len(parts) - 1)) IN
            IF joined = << >> THEN << "/" >> ELSE joined
       ELSE << "/" >>
  ELSE path

\* key.Matches(msg, m.keys.Back)
KeyBack ==
  /\ \E k \in BackKeys :
       /\ KeyHandled(k)
       /\ IF BackGuard(state, folderHistory)
          THEN /\ folderHistory' = BackHistory(folderHistory)
               /\ currentFolderID' = BackFolderID(folderHistory')
               /\ currentFolderPath' = BackPath(currentFolderPath)
               /\ listIndex' = 1
               /\ IF contentCache[currentFolderID'].present
                  THEN /\ state' = stateReady
                       /\ listItems' = contentCache[currentFolderID'].val
                       /\ UNCHANGED pending
                  ELSE /\ state' = stateLoading
                       /\ pending' = Append(pending, [cmd |-> "fetchContents", arg |-> currentFolderID'])
                       /\ UNCHANGED listItems
               /\ UNCHANGED contentCache
          ELSE /\ RemoveBound(k)
               /\ ListUpdate(k)
               /\ contentCache' = ListCache(k, contentCache, listItems, listIndex)
               /\ UNCHANGED << state, folderHistory, currentFolderID, currentFolderPath, pending >>
  /\ UNCHANGED << err, quitting, markedFiles, filterState, listCalls >>
  /\ UNCHANGED transfers

\* Mark: the selected item with its marked flag toggled
MarkToggle(it) == [it EXCEPT !.marked = ~it.marked]

\* Mark: the marked files once the toggled item sel is recorded
MarkFiles(marked, sel) ==
  IF sel.marked THEN [marked EXCEPT ![sel.id] = Present(sel)]
  ELSE [marked EXCEPT ![sel.id] = Absent]

\* Mark: the loop over the items of the list, which stores it, the element it
\* has just read, at the first position whose id is the id of sel
MarkListItems(items, sel) ==
  LET hits == {i \in 1..Len(items) : items[i].id = sel.id} IN
  IF hits = {} THEN items
  ELSE LET first == CHOOSE i \in hits : \A j \in hits : i <= j IN
       [items EXCEPT ![first] = items[first]]

\* mutant: Mark accepts an item of any kind
MarkGuardAny(it) == TRUE

\* Mark: the selected item is a file
MarkGuard(it) == it.itemType = TypeFile

\* key.Matches(msg, m.keys.Mark)
KeyMark ==
  /\ KeyHandled("m")
  /\ IF state = stateReady /\ ~HasSelected(listItems, listIndex)
     THEN UNCHANGED << markedFiles, listItems, listIndex >>
     ELSE IF state = stateReady /\ MarkGuard(listItems[listIndex])
     THEN LET sel == MarkToggle(listItems[listIndex]) IN
          /\ markedFiles' = MarkFiles(markedFiles, sel)
          /\ listItems' = DelegateUpdate("m", MarkListItems(listItems, sel), listIndex)
          /\ listIndex' = CursorMove("m", listItems, listIndex)
     ELSE /\ ListUpdate("m")
          /\ UNCHANGED markedFiles
  /\ UNCHANGED << state, err, quitting, folderHistory, currentFolderID, currentFolderPath,
                  contentCache, filterState, pending, listCalls >>
  /\ UNCHANGED transfers

\* the orders in which a range over the map markedFiles can yield its values
MarkedOrders(marked) ==
  LET ids == {k \in DOMAIN marked : marked[k].present}
      n == Cardinality(ids) IN
  { [i \in 1..n |-> marked[o[i]].val] :
      o \in {q \in [1..n -> ids] : \A i, j \in 1..n : q[i] = q[j] => i = j} }

\* mutant: Download never takes the marked files
DownloadBatchNever(marked) == FALSE

\* if len(m.markedFiles) > 0: Download takes the marked files
DownloadBatch(marked) == MapLen(marked) > 0

\* mutant: Download is accepted in Downloading too
DownloadGuardAny(st) == st = stateReady \/ st = stateDownloading

\* the guard of Download
DownloadGuard(st) == st = stateReady

\* key.Matches(msg, m.keys.Download): the command starts the goroutine of the
\* transfer
KeyDownload ==
  /\ KeyHandled("d")
  /\ IF DownloadGuard(state) /\ DownloadBatch(markedFiles)
     THEN /\ state' = stateDownloading
          /\ \E files \in MarkedOrders(markedFiles) :
               pending' = Append(pending, [cmd |-> "cmdBatchDownloadFiles", arg |-> files])
          /\ transfers' = transfers + 1
          /\ UNCHANGED << listItems, listIndex >>
     ELSE IF DownloadGuard(state) /\ ~HasSelected(listItems, listIndex)
     THEN UNCHANGED << state, pending, listItems, listIndex, transfers >>
     ELSE IF DownloadGuard(state) /\ listItems[listIndex].itemType = TypeFile
     THEN /\ state' = stateDownloading
          /\ pending' = Append(pending, [cmd |-> "cmdDownloadFile", arg |-> listItems[listIndex].id])
          /\ transfers' = transfers + 1
          /\ UNCHANGED << listItems, listIndex >>
     ELSE /\ ListUpdate("d")
          /\ UNCHANGED << state, pending, transfers >>
  /\ UNCHANGED << err, quitting, folderHistory, currentFolderID, currentFolderPath,
                  contentCache, markedFiles, filterState, listCalls >>

\* mutant: marked files do not stop the command
FileActionRefusedNever(marked) == FALSE

\* if len(m.markedFiles) > 0 { return m, m.list.NewStatusMessage(...) }
FileActionRefused(marked) == MapLen(marked) > 0

\* key.Matches(msg, m.keys.CopyURL) and key.Matches(msg, m.keys.OpenMPV): the
\* two cases differ in the command they start
KeyFileAction(k, cmd) ==
  /\ KeyHandled(k)
  /\ IF state = stateReady /\ FileActionRefused(markedFiles)
     THEN UNCHANGED << state, pending, listItems, listIndex >>
     ELSE IF state = stateReady /\ ~HasSelected(listItems, listIndex)
     THEN UNCHANGED << state, pending, listItems, listIndex >>
     ELSE IF state = stateReady /\ listItems[listIndex].itemType = TypeFile
     THEN /\ state' = stateLoading
          /\ pending' = Append(pending, [cmd |-> cmd, arg |-> listItems[listIndex].id])
          /\ UNCHANGED << listItems, listIndex >>
     ELSE /\ ListUpdate(k)
          /\ UNCHANGED << state, pending >>
  /\ UNCHANGED << err, quitting, folderHistory, currentFolderID, currentFolderPath,
                  contentCache, markedFiles, filterState, listCalls >>
  /\ UNCHANGED transfers

KeyCopyURL == KeyFileAction("c", "cmdCopyURL")

KeyOpenMPV == KeyFileAction("o", "cmdOpenMPV")

\* keys the key switch of Update has no case for: the list handles them
ListKeys == {"down", "x"}

KeyList ==
  /\ \E k \in ListKeys :
       /\ KeyHandled(k)
       /\ RemoveBound(k)
       /\ ListUpdate(k)
       /\ contentCache' = ListCache(k, contentCache, listItems, listIndex)
  /\ UNCHANGED << state, err, quitting, folderHistory, currentFolderID, currentFolderPath,
                  markedFiles, filterState, pending, listCalls >>
  /\ UNCHANGED transfers

\* "/" : the list starts filtering when it has items
KeyFilter ==
  /\ KeyHandled("/")
  /\ IF Len(listItems) > 0
     THEN /\ filterState' = "Filtering"
          /\ listIndex' = 1
     ELSE UNCHANGED << filterState, listIndex >>
  /\ UNCHANGED << state, err, quitting, folderHistory, currentFolderID, currentFolderPath,
                  contentCache, markedFiles, listItems, pending, listCalls >>
  /\ UNCHANGED transfers

\* --------------------------------------------- Update: command results

\* command i of the commands in flight ends and its message reaches Update
Finished(i, cmd) ==
  /\ ~quitting
  /\ i \in 1..Len(pending)
  /\ pending[i].cmd = cmd
  /\ pending' = RemoveAt(pending, i)
  /\ UNCHANGED << tVars, cVars, lVars >>
  /\ UNCHANGED transfers

\* mutant: case contentsMsg stores the items under the root id
ContentsCacheAtRoot(cache, id, items) == [cache EXCEPT ![RootID] = Present(items)]

\* mutant: case contentsMsg stores nothing
ContentsCacheDropped(cache, id, items) == cache

\* case contentsMsg: the cache after the message
ContentsCache(cache, id, items) == [cache EXCEPT ![id] = Present(items)]

\* mutant: a listing without items is shown as Ready
FetchStateEmptyReady(type) ==
  IF type = "errMsg" THEN stateError ELSE stateReady

\* cases contentsMsg, errMsg and emptyContentsMsg: m.state after the message
FetchState(type) ==
  IF type = "contentsMsg" THEN stateReady
  ELSE IF type = "errMsg" THEN stateError
  ELSE stateEmpty

\* fetchContents runs: one call of ListContents, then case contentsMsg,
\* case errMsg or case emptyContentsMsg of Update
RecvFetch ==
  \E i \in 1..Len(pending) :
    /\ Finished(i, "fetchContents")
    /\ listCalls' = [listCalls EXCEPT ![pending[i].arg] = @ + 1]
    /\ \E r \in ListContentsResults(pending[i].arg) :
         LET msg == fetchContents(r) IN
         /\ lastMsg' = msg.type
         /\ state' = FetchState(msg.type)
         /\ CASE msg.type = "contentsMsg" ->
                   /\ listItems' = msg.items
                   /\ contentCache' = ContentsCache(contentCache, currentFolderID, msg.items)
                   /\ UNCHANGED err
              [] msg.type = "errMsg" ->
                   /\ err' = "fetch"
                   /\ UNCHANGED << listItems, contentCache >>
              [] msg.type = "emptyContentsMsg" ->
                   /\ UNCHANGED << err, listItems, contentCache >>
    /\ UNCHANGED << quitting, folderHistory, currentFolderID, currentFolderPath,
                    markedFiles, listIndex, filterState >>

\* what cmdCopyURL and cmdOpenMPV end with: the URL resolution fails, the
\* external program fails, or the action succeeds
FileActionResults == {"urlError", "runError", "ok"}

\* cmdCopyURL / cmdOpenMPV end: the Complete or the Error message of Update
RecvFileAction(cmd, okMsg, errMsgType) ==
  \E i \in 1..Len(pending) :
    /\ Finished(i, cmd)
    /\ \E r \in FileActionResults :
         IF r = "ok"
         THEN /\ state' = stateReady
              /\ err' = "nil"
              /\ lastMsg' = okMsg
         ELSE /\ state' = stateError
              /\ err' = r
              /\ lastMsg' = errMsgType
    /\ UNCHANGED << quitting, folderHistory, currentFolderID, currentFolderPath,
                    contentCache, markedFiles, listItems, listIndex, filterState,
                    listCalls >>

RecvClipboard == RecvFileAction("cmdCopyURL", "clipboardCompleteMsg", "clipboardErrorMsg")

RecvOpenMPV == RecvFileAction("cmdOpenMPV", "openMPVCompleteMsg", "openMPVErrorMsg")

\* cmdDownloadFile / cmdBatchDownloadFiles return, as their message, the function
\* that receives from msgChan; Update has no case for a function: default,
\* m.list.Update(msg), which changes nothing.
RecvChanReader ==
  \E i \in 1..Len(pending) :
    /\ \/ Finished(i, "cmdDownloadFile")
       \/ Finished(i, "cmdBatchDownloadFiles")
    /\ lastMsg' = "func"
    /\ UNCHANGED << state, err, quitting, folderHistory, currentFolderID, currentFolderPath,
                    contentCache, markedFiles, listItems, listIndex, filterState,
                    listCalls >>

\* -------------------------------------------------- the transfer goroutine

\* the read buffer, 32 KiB, in units of 16 KiB
BufSize == 2

\* the content lengths a response can declare; -1 is "unknown"
Lengths == -1 .. MaxLen

\* a message on msgChan.  file is the position of the file the goroutine was
\* at when it sent the message; a progressMsg itself carries the fraction only.
Msg(type, num, den, errs) == [type |-> type, num |-> num, den |-> den, errs |-> errs, file |-> tIdx]

NoMsg == [type |-> "none", num |-> 0, den |-> 0, errs |-> << >>, file |-> 0]

\* mutant: the progress is sent as a percentage
ProgressPercent(downloaded, total) == Msg("progressMsg", downloaded * 100, total, << >>)

\* progressMsg(float64(downloadedBytes) / float64(totalSize)), as a fraction
Progress(downloaded, total) == Msg("progressMsg", downloaded, total, << >>)

\* the goroutine is idle: no transfer was started
TransferIdle ==
  /\ tMode = "none"
  /\ tFiles = << >>
  /\ tIdx = 0
  /\ tPc = "idle"
  /\ contentLength = 0
  /\ remaining = 0
  /\ downloadedBytes = 0
  /\ readErr = "nil"
  /\ batchErrors = << >>
  /\ msgChan = NoMsg
  /\ msgChanClosed = FALSE
  /\ delivered = << >>
  /\ attempted = {}
  /\ outcome = << >>
  /\ created = {}

FileNames == << "10", "11", "12", "13" >>

\* a transfer was started: cmdDownloadFile for one file, or
\* cmdBatchDownloadFiles for the marked files, of which there is at least one
TransferStarted ==
  /\ tMode \in {"single", "batch"}
  /\ \E n \in 1..MaxBatch :
       /\ tMode = "single" => n = 1
       /\ tFiles = SubSeq(FileNames, 1, n)
       /\ outcome = [i \in 1..n |-> "pending"]
  /\ tIdx = 1
  /\ tPc = "FetchFile"
  /\ contentLength = 0
  /\ remaining = 0
  /\ downloadedBytes = 0
  /\ readErr = "nil"
  /\ batchErrors = << >>
  /\ msgChan = NoMsg
  /\ msgChanClosed = FALSE
  /\ delivered = << >>
  /\ attempted = {}
  /\ created = {}

\* the statement after the body of the range loop: the next file, or the end
NextFile(idx) == IF idx < Len(tFiles) THEN "FetchFile" ELSE "final"

\* batch: the failure of the file at idx is collected
BatchErrors(errors, idx, stage) == Append(errors, [file |-> idx, kind |-> stage])

\* mutant: a failure ends the range loop of the batch
FailAtAbort(stage) ==
  /\ outcome' = [outcome EXCEPT ![tIdx] = stage]
  /\ IF tMode = "single"
     THEN /\ msgChan' = Msg("downloadErrorMsg", 0, 0, << [file |-> tIdx, kind |-> stage] >>)
          /\ tPc' = "sendError"
          /\ UNCHANGED << tIdx, batchErrors >>
     ELSE /\ batchErrors' = BatchErrors(batchErrors, tIdx, stage)
          /\ tPc' = "final"
          /\ tIdx' = tIdx + 1
          /\ UNCHANGED msgChan

\* The file at tIdx fails at a stage.  cmdDownloadFile sends a downloadErrorMsg
\* and returns; cmdBatchDownloadFiles appends the error and goes on with the
\* next file.
FailAt(stage) ==
  /\ outcome' = [outcome EXCEPT ![tIdx] = stage]
  /\ IF tMode = "single"
     THEN /\ msgChan' = Msg("downloadErrorMsg", 0, 0, << [file |-> tIdx, kind |-> stage] >>)
          /\ tPc' = "sendError"
          /\ UNCHANGED << tIdx, batchErrors >>
     ELSE /\ batchErrors' = BatchErrors(batchErrors, tIdx, stage)
          /\ tPc' = NextFile(tIdx)
          /\ tIdx' = tIdx + 1
          /\ UNCHANGED msgChan

\* client.FetchFile(ctx, fileID)
TFetchFile ==
  /\ tPc = "FetchFile"
  /\ attempted' = attempted \cup {tIdx}
  /\ delivered' = << >>
  /\ \E ok \in BOOLEAN :
       IF ok
       THEN /\ tPc' = "Get"
            /\ UNCHANGED << tIdx, batchErrors, msgChan, outcome >>
       ELSE FailAt("url")
  /\ UNCHANGED << tMode, tFiles, contentLength, remaining, downloadedBytes, readErr,
                  msgChanClosed, created >>
  /\ UNCHANGED << uiVars, transfers, cVars, lVars >>

\* http.Get(fileResult.URL): a response declares a content length; with a
\* known length the body holds exactly that many bytes
THttpGet ==
  /\ tPc = "Get"
  /\ \E ok \in BOOLEAN :
       IF ok
       THEN /\ \E len \in Lengths :
                 /\ contentLength' = len
                 /\ remaining' = IF len > 0 THEN len ELSE 0
            /\ tPc' = "CheckLength"
            /\ UNCHANGED << tIdx, batchErrors, msgChan, outcome >>
       ELSE /\ FailAt("conn")
            /\ UNCHANGED << contentLength, remaining >>
  /\ UNCHANGED << tMode, tFiles, downloadedBytes, readErr,
                  msgChanClosed, delivered, attempted, created >>
  /\ UNCHANGED << uiVars, transfers, cVars, lVars >>

\* mutant: only a negative content length is refused
LengthUntrackableNegative(len) == len < 0

\* resp.ContentLength <= 0
LengthUntrackable(len) == len <= 0

\* if resp.ContentLength <= 0 { ... }
TCheckLength ==
  /\ tPc = "CheckLength"
  /\ IF LengthUntrackable(contentLength)
     THEN FailAt("length")
     ELSE /\ tPc' = "Create"
          /\ UNCHANGED << tIdx, batchErrors, msgChan, outcome >>
  /\ UNCHANGED << tMode, tFiles, contentLength, remaining, downloadedBytes, readErr,
                  msgChanClosed, delivered, attempted, created >>
  /\ UNCHANGED << uiVars, transfers, cVars, lVars >>

\* os.Create, then totalSize and downloadedBytes are set
TCreate ==
  /\ tPc = "Create"
  /\ \E ok \in BOOLEAN :
       IF ok
       THEN /\ created' = created \cup {tIdx}
            /\ downloadedBytes' = 0
            /\ tPc' = "Read"
            /\ UNCHANGED << tIdx, batchErrors, msgChan, outcome >>
       ELSE /\ FailAt("create")
            /\ UNCHANGED << created, downloadedBytes >>
  /\ UNCHANGED << tMode, tFiles, contentLength, remaining, readErr,
                  msgChanClosed, delivered, attempted >>
  /\ UNCHANGED << uiVars, transfers, cVars, lVars >>

\* What resp.Body.Read can return with left bytes of the body unread: n bytes
\* and an error.  The body of a response of known length ends in io.EOF only
\* when all its bytes were read; a read of no byte reports why.
Reads(left) ==
  { r \in [n : 0 .. (IF left < BufSize THEN left ELSE BufSize), err : {"nil", "EOF", "error"}] :
      /\ r.err = "EOF" => r.n = left
      /\ r.n = 0 => r.err # "nil" }

\* the branch on readErr after the n bytes of a Read were handled
AfterRead(e) ==
  IF e = "EOF"
  THEN /\ msgChan' = Msg("downloadCompleteMsg", 0, 0, << >>)
       /\ tPc' = "sendComplete"
       /\ outcome' = [outcome EXCEPT ![tIdx] = "ok"]
       /\ UNCHANGED << tIdx, batchErrors >>
  ELSE IF e = "error"
  THEN FailAt("read")
  ELSE /\ tPc' = "Read"
       /\ UNCHANGED << tIdx, batchErrors, msgChan, outcome >>

\* one turn of the stream loop: Read, Write, the send of the progress
TRead ==
  /\ tPc = "Read"
  /\ \E r \in Reads(remaining) :
       /\ remaining' = remaining - r.n
       /\ readErr' = r.err
       /\ IF r.n > 0
          THEN \E writeOk \in BOOLEAN :
                 IF writeOk
                 THEN /\ downloadedBytes' = downloadedBytes + r.n
                      /\ msgChan' = Progress(downloadedBytes', contentLength)
                      /\ tPc' = "sendProgress"
                      /\ UNCHANGED << tIdx, batchErrors, outcome >>
                 ELSE /\ FailAt("write")
                      /\ UNCHANGED downloadedBytes
          ELSE /\ AfterRead(r.err)
               /\ UNCHANGED downloadedBytes
  /\ UNCHANGED << tMode, tFiles, contentLength, msgChanClosed, delivered, attempted, created >>
  /\ UNCHANGED << uiVars, transfers, cVars, lVars >>

\* the stream loop after the progress was received
TCheckReadErr ==
  /\ tPc = "checkReadErr"
  /\ AfterRead(readErr)
  /\ UNCHANGED << tMode, tFiles, contentLength, remaining, downloadedBytes, readErr,
                  msgChanClosed, delivered, attempted, created >>
  /\ UNCHANGED << uiVars, transfers, cVars, lVars >>

\* batch: the message after the range loop
FinalMsg(errors, files) ==
  IF Len(errors) > 0
  THEN Msg("batchDownloadErrorMsg", 0, 0, errors)
  ELSE Msg("batchDownloadCompleteMsg", Len(files), 0, << >>)

\* batch: after the range loop
TFinal ==
  /\ tPc = "final"
  /\ msgChan' = FinalMsg(batchErrors, tFiles)
  /\ tPc' = "sendFinal"
  /\ UNCHANGED << tMode, tFiles, tIdx, contentLength, remaining, downloadedBytes, readErr,
                  batchErrors, msgChanClosed, delivered, attempted, outcome, created >>
  /\ UNCHANGED << uiVars, transfers, cVars, lVars >>

\* batch: close(msgChan)
TClose ==
  /\ tPc = "close"
  /\ msgChanClosed' = TRUE
  /\ tPc' = "done"
  /\ UNCHANGED << tMode, tFiles, tIdx, contentLength, remaining, downloadedBytes, readErr,
                  batchErrors, msgChan, delivered, attempted, outcome, created >>
  /\ transfers' = transfers - 1
  /\ UNCHANGED << uiVars, cVars, lVars >>

\* where the goroutine goes on once its send was received
AfterSend(pc) ==
  CASE pc = "sendProgress" -> "checkReadErr"
    [] pc = "sendComplete" -> IF tMode = "single" THEN "done" ELSE NextFile(tIdx)
    [] pc = "sendError" -> "done"
    [] pc = "sendFinal" -> "close"

\* the messages that tell the end of a transfer
TransferSuccess == {"downloadCompleteMsg", "batchDownloadCompleteMsg"}

TransferFailure == {"downloadErrorMsg", "batchDownloadErrorMsg"}

\* Update, cases downloadCompleteMsg, downloadErrorMsg, batchDownloadCompleteMsg,
\* batchDownloadErrorMsg and progressMsg: m.state after the message
TransferMsgState(type, st) ==
  IF type \in TransferSuccess THEN stateReady
  ELSE IF type \in TransferFailure THEN stateError
  ELSE st

\* the same cases: m.err after the message
TransferMsgErr(type, e) ==
  IF type \in TransferSuccess THEN "nil"
  ELSE IF type \in TransferFailure THEN "download"
  ELSE e

\* mutant: a finished transfer clears the marked files
TransferMsgMarkedCleared(type, marked) ==
  IF type \in TransferSuccess THEN [k \in DOMAIN marked |-> Absent] ELSE marked

\* the same cases: m.markedFiles after the message, which none of them writes
TransferMsgMarked(type, marked) == marked

\* The function the command returned, return <-msgChan, is called: it receives
\* the message the goroutine is blocked sending, and the message is handed to
\* Update.
ChanReceive ==
  /\ msgChan # NoMsg
  /\ delivered' = Append(delivered, msgChan)
  /\ msgChan' = NoMsg
  /\ tPc' = AfterSend(tPc)
  /\ tIdx' = IF tPc = "sendComplete" /\ tMode = "batch" THEN tIdx + 1 ELSE tIdx
  /\ UNCHANGED << tMode, tFiles, contentLength, remaining, downloadedBytes, readErr,
                  batchErrors, msgChanClosed, attempted, outcome, created >>
  /\ transfers' = IF AfterSend(tPc) = "done" THEN transfers - 1 ELSE transfers
  /\ UNCHANGED << cVars, lVars >>
  /\ lastMsg' = msgChan.type
  /\ state' = TransferMsgState(msgChan.type, state)
  /\ err' = TransferMsgErr(msgChan.type, err)
  /\ markedFiles' = TransferMsgMarked(msgChan.type, markedFiles)
  /\ UNCHANGED << quitting, folderHistory, currentFolderID, currentFolderPath,
                  contentCache, listItems, listIndex, filterState, pending, listCalls >>

\* ------------------------------------------------------ specifications

\* ------------------------------------------------------------- the client

\* the goroutines calling API methods on one Client
MaxGoroutines == 2
Goroutines == 1..MaxGoroutines
NoHolder == 0

\* a *string that is nil or points to "", which the client treats alike
NoToken == ""

\* the access tokens and refresh tokens of the service
AccessTokens == {"a0", "a1", "a2"}
RefreshTokens == {"r0", "r1"}

\* What the service answers to a request: status 0 stands for a request that
\* got no answer, json for a body that parses, result and error for the fields
\* of those names in the body ("true" and "false" are the booleans), and
\* access_token and refresh_token for those of an answer to a refresh.
Statuses == {0, 200, 400, 401, 500}
ApiResponses ==
  [status : Statuses, json : BOOLEAN, result : {"", "true", "false", "expired_token"},
   error : {"", "expired_token"}, access_token : {""}, refresh_token : {""}]
RefreshResponses ==
  [status : Statuses, json : BOOLEAN, result : {""}, error : {""},
   access_token : {"", "a1", "a2"}, refresh_token : {"", "r1"}]
NoResp == [status |-> 0, json |-> FALSE, result |-> "", error |-> "",
           access_token |-> "", refresh_token |-> ""]

\* an error value: its Go type, its ErrorType and what its message says
NoErr == [type |-> "nil", errorType |-> "", message |-> ""]
NetworkError == [type |-> "NetworkError", errorType |-> "", message |-> "request"]
ServerError == [type |-> "ServerError", errorType |-> "", message |-> "status"]

\* NewAPIError: ErrorType is the string in the field result of the body
NewAPIError(message, resp) ==
  [type |-> "APIError",
   errorType |-> IF resp.json /\ resp.result \notin {"true", "false"} THEN resp.result
                 ELSE "",
   message |-> message]

\* NewAuthenticationError: ErrorType is the string in the field error of the
\* body
NewAuthenticationError(message, resp) ==
  [type |-> "AuthenticationError",
   errorType |-> IF resp.json THEN resp.error ELSE "",
   message |-> message]

\* makeHTTPRequest: the error it returns for an answer, NoErr for none
makeHTTPRequest(resp) ==
  IF resp.status = 0 THEN NetworkError
  ELSE IF resp.status >= 500 /\ resp.status < 600 THEN ServerError
  ELSE IF resp.status >= 400 /\ resp.status < 500
  THEN IF resp.status = 401 THEN NewAuthenticationError("status", resp)
       ELSE NewAPIError("status", resp)
  ELSE IF ~resp.json
  THEN [type |-> "APIError", errorType |-> "parsing_error", message |-> "parse"]
  ELSE NoErr

\* the check of apiRequest on a response that came without error: result is
\* the boolean false
ResultFalse(resp) ==
  IF resp.result = "false"
  THEN [type |-> "APIError", errorType |-> "", message |-> "result=false"]
  ELSE NoErr

\* apiRequest: the error of the first attempt that leads to a refresh
TokenExpired(e) == e.type = "APIError" /\ e.errorType = "expired_token"

\* mutant: Lock returns although another goroutine holds the mutex
LockAnyway(m) == TRUE

\* c.mu.Lock() returns once no goroutine holds the mutex
Lock(m) == m = NoHolder

\* Token.Update: both fields are written under t.mu
Update(t, accessToken, refresh) ==
  [t EXCEPT !.AccessToken = accessToken, !.RefreshToken = refresh]

\* mutant: the second attempt goes out with the parameters of the first
RetryParamKept(t, sent) == sent[1]

\* apiRequest: params["access_token"] of the second attempt, read from the
\* token again
RetryParam(t, sent) == t.AccessToken

\* mutant: a response without access_token counts as a refresh
NoAccessTokenNever(resp) == FALSE

\* refreshAccessToken: the response holds no string access_token, or an empty
\* one
NoAccessToken(resp) == resp.access_token = ""

\* c.onTokenRefresh != nil
CallbackSet(cb) == cb

\* no goroutine is inside the client
ClientIdle ==
  /\ token = [AccessToken |-> "a0", RefreshToken |-> "r0", DeviceCode |-> NoToken]
  /\ mu = NoHolder
  /\ onTokenRefresh = TRUE
  /\ cpc = [g \in Goroutines |-> "idle"]
  /\ sentTokens = [g \in Goroutines |-> << >>]
  /\ firstErr = [g \in Goroutines |-> NoErr]
  /\ refreshCalls = [g \in Goroutines |-> 0]
  /\ refreshToken = [g \in Goroutines |-> NoToken]
  /\ refreshResp = [g \in Goroutines |-> NoResp]
  /\ refreshErr = [g \in Goroutines |-> NoErr]
  /\ callbackRuns = [g \in Goroutines |-> 0]
  /\ apiErr = [g \in Goroutines |-> NoErr]
  /\ tokenFile = ""
  /\ issued = {"a0"}

\* NewClient with a token that has a refresh token, a device code, both or
\* neither, with or without WithTokenRefreshCallback
InitClientVars ==
  /\ token \in [AccessToken : {"a0"}, RefreshToken : {NoToken, "r0"},
                DeviceCode : {NoToken, "d0"}]
  /\ mu = NoHolder
  /\ onTokenRefresh \in BOOLEAN
  /\ cpc = [g \in Goroutines |-> "idle"]
  /\ sentTokens = [g \in Goroutines |-> << >>]
  /\ firstErr = [g \in Goroutines |-> NoErr]
  /\ refreshCalls = [g \in Goroutines |-> 0]
  /\ refreshToken = [g \in Goroutines |-> NoToken]
  /\ refreshResp = [g \in Goroutines |-> NoResp]
  /\ refreshErr = [g \in Goroutines |-> NoErr]
  /\ callbackRuns = [g \in Goroutines |-> 0]
  /\ apiErr = [g \in Goroutines |-> NoErr]
  /\ tokenFile = ""
  /\ issued = {"a0"}

\* apiRequest: c.mu.Lock(), on which the call starts
ApiLock(g) ==
  /\ cpc[g] = "idle"
  /\ Lock(mu)
  /\ mu' = g
  /\ cpc' = [cpc EXCEPT ![g] = "first"]
  /\ UNCHANGED << token, onTokenRefresh, sentTokens, firstErr, refreshCalls,
                  refreshToken, refreshResp, refreshErr, callbackRuns, apiErr, tokenFile,
                  issued >>
  /\ UNCHANGED << uiVars, tVars, transfers, lVars >>

\* apiRequest: the first attempt, sent with the access token read from the
\* token, and what its error leads to
ApiFirst(g) ==
  /\ cpc[g] = "first"
  /\ sentTokens' = [sentTokens EXCEPT ![g] = Append(@, token.AccessToken)]
  /\ \E resp \in ApiResponses :
       LET e == makeHTTPRequest(resp) IN
         /\ firstErr' = [firstErr EXCEPT ![g] = e]
         /\ IF TokenExpired(e)
            THEN /\ cpc' = [cpc EXCEPT ![g] = "refresh"]
                 /\ UNCHANGED apiErr
            ELSE /\ cpc' = [cpc EXCEPT ![g] = "unlock"]
                 /\ apiErr' = [apiErr EXCEPT ![g] = IF e # NoErr THEN e
                                                     ELSE ResultFalse(resp)]
  /\ UNCHANGED << token, mu, onTokenRefresh, refreshCalls, refreshToken, refreshResp,
                  refreshErr, callbackRuns, tokenFile, issued >>
  /\ UNCHANGED << uiVars, tVars, transfers, lVars >>

\* refreshAccessToken up to its request: with a refresh token or a device code
\* the request is sent, with neither the error is returned, which apiRequest
\* returns
ApiRefreshStart(g) ==
  /\ cpc[g] = "refresh"
  /\ refreshCalls' = [refreshCalls EXCEPT ![g] = @ + 1]
  /\ refreshToken' = [refreshToken EXCEPT ![g] = token.RefreshToken]
  /\ IF token.RefreshToken # NoToken \/ token.DeviceCode # NoToken
     THEN /\ cpc' = [cpc EXCEPT ![g] = "refreshing"]
          /\ UNCHANGED << refreshErr, apiErr >>
     ELSE LET e == [type |-> "AuthenticationError", errorType |-> "",
                    message |-> "Session expired"] IN
          /\ cpc' = [cpc EXCEPT ![g] = "unlock"]
          /\ refreshErr' = [refreshErr EXCEPT ![g] = e]
          /\ apiErr' = [apiErr EXCEPT ![g] = e]
  /\ UNCHANGED << token, mu, onTokenRefresh, sentTokens, firstErr, refreshResp,
                  callbackRuns, tokenFile, issued >>
  /\ UNCHANGED << uiVars, tVars, transfers, lVars >>

\* refreshAccessToken from the answer of its request to c.token.Update
ApiRefreshResponse(g) ==
  /\ cpc[g] = "refreshing"
  /\ \E resp \in RefreshResponses :
       LET e == makeHTTPRequest(resp) IN
         /\ refreshResp' = [refreshResp EXCEPT ![g] = resp]
         /\ issued' = IF e = NoErr /\ resp.access_token # ""
                      THEN issued \cup {resp.access_token} ELSE issued
         /\ IF e # NoErr
            THEN LET r == [type |-> "AuthenticationError", errorType |-> "",
                           message |-> "Failed to refresh token"] IN
                 /\ refreshErr' = [refreshErr EXCEPT ![g] = r]
                 /\ apiErr' = [apiErr EXCEPT ![g] = r]
                 /\ cpc' = [cpc EXCEPT ![g] = "unlock"]
                 /\ UNCHANGED token
            ELSE IF NoAccessToken(resp)
            THEN LET r == [type |-> "AuthenticationError", errorType |-> "",
                           message |-> "Token refresh failed"] IN
                 /\ refreshErr' = [refreshErr EXCEPT ![g] = r]
                 /\ apiErr' = [apiErr EXCEPT ![g] = r]
                 /\ cpc' = [cpc EXCEPT ![g] = "unlock"]
                 /\ UNCHANGED token
            ELSE /\ token' = Update(token, resp.access_token, refreshToken[g])
                 /\ cpc' = [cpc EXCEPT ![g] = "callback"]
                 /\ UNCHANGED << refreshErr, apiErr >>
  /\ UNCHANGED << mu, onTokenRefresh, sentTokens, firstErr, refreshCalls, refreshToken,
                  callbackRuns, tokenFile >>
  /\ UNCHANGED << uiVars, tVars, transfers, lVars >>

\* refreshAccessToken after the update: the callback, when one is set, is
\* called with the token; the callback of package internal writes the token
\* to token.txt unless it fails on the way
ApiCallback(g) ==
  /\ cpc[g] = "callback"
  /\ cpc' = [cpc EXCEPT ![g] = "retry"]
  /\ IF CallbackSet(onTokenRefresh)
     THEN /\ callbackRuns' = [callbackRuns EXCEPT ![g] = @ + 1]
          /\ \E written \in BOOLEAN :
               tokenFile' = IF written THEN token.AccessToken ELSE tokenFile
     ELSE UNCHANGED << callbackRuns, tokenFile >>
  /\ UNCHANGED << token, mu, onTokenRefresh, sentTokens, firstErr, refreshCalls,
                  refreshToken, refreshResp, refreshErr, apiErr, issued >>
  /\ UNCHANGED << uiVars, tVars, transfers, lVars >>

\* apiRequest: the second attempt, sent with the access token read again
ApiRetry(g) ==
  /\ cpc[g] = "retry"
  /\ sentTokens' = [sentTokens EXCEPT ![g] = Append(@, RetryParam(token, @))]
  /\ \E resp \in ApiResponses :
       LET e == makeHTTPRequest(resp) IN
         apiErr' = [apiErr EXCEPT ![g] = IF e # NoErr THEN e ELSE ResultFalse(resp)]
  /\ cpc' = [cpc EXCEPT ![g] = "unlock"]
  /\ UNCHANGED << token, mu, onTokenRefresh, firstErr, refreshCalls, refreshToken,
                  refreshResp, refreshErr, callbackRuns, tokenFile, issued >>
  /\ UNCHANGED << uiVars, tVars, transfers, lVars >>

\* apiRequest returns: the deferred c.mu.Unlock(); the locals of the call are
\* gone
ApiUnlock(g) ==
  /\ cpc[g] = "unlock"
  /\ mu' = NoHolder
  /\ cpc' = [cpc EXCEPT ![g] = "idle"]
  /\ sentTokens' = [sentTokens EXCEPT ![g] = << >>]
  /\ firstErr' = [firstErr EXCEPT ![g] = NoErr]
  /\ refreshCalls' = [refreshCalls EXCEPT ![g] = 0]
  /\ refreshToken' = [refreshToken EXCEPT ![g] = NoToken]
  /\ refreshResp' = [refreshResp EXCEPT ![g] = NoResp]
  /\ refreshErr' = [refreshErr EXCEPT ![g] = NoErr]
  /\ callbackRuns' = [callbackRuns EXCEPT ![g] = 0]
  /\ apiErr' = [apiErr EXCEPT ![g] = NoErr]
  /\ UNCHANGED << token, onTokenRefresh, tokenFile, issued >>
  /\ UNCHANGED << uiVars, tVars, transfers, lVars >>

\* ------------------------------------------------------------- the lookup

\* calls of FetchObjectDetails in one process
MaxLookups == 3

\* the folder ids of the accounts of the lookup
LookupFolders == {"0", "1", "3"}
NoContents == [folders |-> << >>, files |-> << >>]

\* accounts: one with no files and no folders, one with a file in the root,
\* one with a folder in a folder
Accounts ==
  { [id \in LookupFolders |-> NoContents],
    [id \in LookupFolders |->
       IF id = "0" THEN [folders |-> << >>, files |-> << "f" >>] ELSE NoContents],
    [id \in LookupFolders |->
       IF id = "0" THEN [folders |-> << [id |-> "1", name |-> "a"] >>, files |-> << "f" >>]
       ELSE IF id = "1" THEN [folders |-> << [id |-> "3", name |-> "c"] >>, files |-> << "g" >>]
       ELSE [folders |-> << >>, files |-> << "h" >>]] }

RECURSIVE GetFolderContents(_, _, _)
RECURSIVE GetSubfolders(_, _, _, _)

\* the loop over currentFolder.Folders from position k: the name of the
\* subfolder, then, unless ListContents of it fails, what it holds
GetSubfolders(acc, failing, id, k) ==
  IF k > Len(acc[id].folders) THEN [names |-> << >>, listed |-> 0]
  ELSE LET sub == acc[id].folders[k]
           inner == IF sub.id \in failing THEN [names |-> << >>, listed |-> 0]
                    ELSE GetFolderContents(acc, failing, sub.id)
           rest == GetSubfolders(acc, failing, id, k + 1)
       IN [names |-> << sub.name >> \o inner.names \o rest.names,
           listed |-> 1 + inner.listed + rest.listed]

\* GetFolderContents, and the same two loops of FetchObjectDetails over the
\* root: the names collected, in order, and the ListContents calls made
GetFolderContents(acc, failing, id) ==
  LET subs == GetSubfolders(acc, failing, id, 1) IN
    [names |-> subs.names \o acc[id].files, listed |-> subs.listed]

NilMap == [isNil |-> TRUE, keys |-> {}]

\* FetchObjectDetails: "already populated"
Populated(all, names) == ~all.isNil /\ Len(names) > 0

\* the process starts with both globals nil
LookupIdle ==
  /\ allSeedrObjects = NilMap
  /\ objectNames = << >>
  /\ account = [id \in LookupFolders |-> NoContents]
  /\ lookupCalls = 0
  /\ lookupListed = 0
  /\ lookupNames = << >>
  /\ lookupErr = FALSE
  /\ firstNames = [returned |-> FALSE, names |-> << >>]

InitLookupVars ==
  /\ allSeedrObjects = NilMap
  /\ objectNames = << >>
  /\ account \in Accounts
  /\ lookupCalls = 0
  /\ lookupListed = 0
  /\ lookupNames = << >>
  /\ lookupErr = FALSE
  /\ firstNames = [returned |-> FALSE, names |-> << >>]

\* FetchObjectDetails; failing are the folders whose ListContents fails
FetchObjectDetails ==
  /\ lookupCalls < MaxLookups
  /\ lookupCalls' = lookupCalls + 1
  /\ IF Populated(allSeedrObjects, objectNames)
     THEN /\ lookupNames' = objectNames
          /\ lookupListed' = 0
          /\ lookupErr' = FALSE
          /\ UNCHANGED << allSeedrObjects, objectNames >>
     ELSE \E failing \in SUBSET LookupFolders :
            IF "0" \in failing
            THEN /\ lookupNames' = << >>
                 /\ lookupListed' = 1
                 /\ lookupErr' = TRUE
                 /\ UNCHANGED << allSeedrObjects, objectNames >>
            ELSE LET collected == GetFolderContents(account, failing, "0") IN
                 /\ allSeedrObjects' =
                      [isNil |-> FALSE,
                       keys |-> {collected.names[i] : i \in 1..Len(collected.names)}]
                 /\ objectNames' = collected.names
                 /\ lookupNames' = collected.names
                 /\ lookupListed' = 1 + collected.listed
                 /\ lookupErr' = FALSE
  /\ firstNames' = IF ~firstNames.returned /\ ~lookupErr'
                   THEN [returned |-> TRUE, names |-> lookupNames']
                   ELSE firstNames
  /\ UNCHANGED account
  /\ UNCHANGED << uiVars, tVars, transfers, cVars >>

\* between two calls the owner of the account adds or deletes files and
\* folders
AccountChanges ==
  /\ \E acc \in Accounts \ {account} : account' = acc
  /\ UNCHANGED << allSeedrObjects, objectNames, lookupCalls, lookupListed, lookupNames,
                  lookupErr, firstNames >>
  /\ UNCHANGED << uiVars, tVars, transfers, cVars >>

Init == InitUI /\ TransferIdle /\ transfers = 0 /\ ClientIdle /\ LookupIdle

Next ==
  \/ KeyWhileFiltering
  \/ KeyQuit
  \/ KeyRetry
  \/ KeyEnter
  \/ KeyBack
  \/ KeyMark
  \/ KeyDownload
  \/ KeyCopyURL
  \/ KeyOpenMPV
  \/ KeyList
  \/ KeyFilter
  \/ RecvFetch
  \/ RecvClipboard
  \/ RecvOpenMPV
  \/ RecvChanReader

\* the program: Update and the commands it starts
Spec == Init /\ [][Next]_vars

\* The program right after a Download key at the listed root, the message of
\* the command delivered: Downloading, with the files of a batch marked.
InitDownloading ==
  /\ state = stateDownloading
  /\ err = "nil"
  /\ quitting = FALSE
  /\ folderHistory = << RootID >>
  /\ currentFolderID = RootID
  /\ currentFolderPath = << "/" >>
  /\ contentCache = [f \in FolderIDs |-> IF f = RootID THEN Present(RemoteContents[f]) ELSE Absent]
  /\ markedFiles =
       [k \in ItemIDs \cup {tFiles[i] : i \in 1..Len(tFiles)} |->
          IF tMode = "batch" /\ \E i \in 1..Len(tFiles) : tFiles[i] = k
          THEN Present([NewItem(k, TypeFile, << k >>) EXCEPT !.marked = TRUE])
          ELSE Absent]
  /\ listItems = RemoteContents[RootID]
  /\ listIndex = 3
  /\ filterState = "Unfiltered"
  /\ pending = << >>
  /\ lastMsg = "func"
  /\ listCalls = [f \in FolderIDs |-> IF f = RootID THEN 1 ELSE 0]

InitTransfer ==
  TransferStarted /\ InitDownloading /\ transfers = 1 /\ ClientIdle /\ LookupIdle

NextTransfer ==
  \/ TFetchFile
  \/ THttpGet
  \/ TCheckLength
  \/ TCreate
  \/ TRead
  \/ TCheckReadErr
  \/ TFinal
  \/ TClose
  \/ ChanReceive

\* one transfer goroutine, with a receiver that keeps calling the function the
\* command returned
SpecTransfer == InitTransfer /\ [][NextTransfer]_vars

\* The program with the scheduling of bubbletea: the message a command ends
\* with is handed to Update.  Keys come as the user pleases.
Delivery == RecvFetch \/ RecvClipboard \/ RecvOpenMPV \/ RecvChanReader

FairSpec == Init /\ [][Next]_vars /\ WF_vars(Delivery)

\* The steps of a transfer that end of themselves: client.FetchFile runs under
\* the deadline of ctx, the local steps wait for nothing, and the receiver
\* keeps receiving.  http.Get(fileResult.URL) and resp.Body.Read are given
\* neither ctx nor a client timeout: they return when the remote end answers.
TransferProgress ==
  \/ TFetchFile
  \/ TCheckLength
  \/ TCreate
  \/ TCheckReadErr
  \/ TFinal
  \/ TClose
  \/ ChanReceive

\* one transfer goroutine, its receiver, and a remote end that may stop
\* answering
FairTransfer == InitTransfer /\ [][NextTransfer]_vars /\ WF_vars(TransferProgress)

\* ------------------------------------------------------------ the claims

\* membership of the Selection Set
Members(marked) == {k \in DOMAIN marked : marked[k].present}

\* the marked files after two Mark commands in a row on the selected item
MarkTwice ==
  LET sel1 == MarkToggle(listItems[listIndex])
      marked1 == MarkFiles(markedFiles, sel1)
      items1 == DelegateUpdate("m", MarkListItems(listItems, sel1), listIndex)
      sel2 == MarkToggle(items1[listIndex])
  IN  MarkFiles(marked1, sel2)

\* a Mark command would be accepted for a file
MarkAccepted ==
  /\ ~quitting
  /\ filterState # "Filtering"
  /\ state = stateReady
  /\ HasSelected(listItems, listIndex)
  /\ listItems[listIndex].itemType = TypeFile

\* C1: in Ready, with a file selected, two Mark commands in a row leave the
\* membership of the Selection Set as it was before the first.
C1_MarkTwiceRestores == MarkAccepted => Members(MarkTwice) = Members(markedFiles)

\* C2: with a folder-id stack of length 1, a Back key changes none of state,
\* stack, current folder id, path, cache, Selection Set and displayed items.
C2_BackAtRootNoOp ==
  [][ (lastMsg' \in BackKeys /\ Len(folderHistory) = 1)
      => UNCHANGED << state, folderHistory, currentFolderID, currentFolderPath,
                      contentCache, markedFiles, listItems >> ]_vars

\* C3: the folder-id stack is never empty and its first element is the root id.
C3_StackInvariant == Len(folderHistory) >= 1 /\ folderHistory[1] = RootID

\* C3 witness: a Back was accepted two levels down, after two Enter
C3_Witness ==
  /\ lastMsg \in BackKeys
  /\ state = stateReady
  /\ Len(folderHistory) = 2
  /\ currentFolderPath # << "/" >>

\* the number of folder names in the path; "/" alone is the root
PathSegments(path) == IF path = << "/" >> THEN 0 ELSE Len(Split(path))

\* C4: the path holds as many folder names as the folder-id stack holds ids
\* after the root, and it is "/" exactly when the stack holds the root alone.
C4_PathStackConsistent ==
  /\ PathSegments(currentFolderPath) = Len(folderHistory) - 1
  /\ (currentFolderPath = << "/" >>) <=> (Len(folderHistory) = 1)

\* C4 witness: two levels down, the second folder name being two characters long
C4_Witness ==
  /\ Len(folderHistory) = 3
  /\ currentFolderPath = << "a", "/", "c", "d" >>

\* a step that pushes a folder whose id the cache holds
EnterCached ==
  /\ lastMsg' = "enter"
  /\ Len(folderHistory') = Len(folderHistory) + 1
  /\ contentCache[currentFolderID'].present

\* C5: between two deletions of its cache entry a folder is listed at most
\* once, and Enter on a folder the cache holds stays in Ready without a fetch.
C5_CacheIdempotence ==
  /\ [](\A f \in FolderIDs : listCalls[f] <= 1)
  /\ [][ EnterCached => (state' = stateReady /\ pending' = pending /\ listCalls' = listCalls) ]_vars

\* C5 witness: folder "1" was entered, listed, left, and entered again from the
\* root, whose items the list still holds since the cache hit sets no items
C5_Witness ==
  /\ lastMsg = "enter"
  /\ state = stateReady
  /\ currentFolderID = "1"
  /\ contentCache["1"].present
  /\ listCalls["1"] = 1
  /\ contentCache[RootID].present
  /\ listItems = contentCache[RootID].val

\* C6: a Back in Empty, one level below a cached root, gives Ready showing the
\* root's items and starts no fetch.
C6_BackFromEmpty ==
  [][ (lastMsg' \in BackKeys /\ state = stateEmpty /\ Len(folderHistory) = 2
         /\ contentCache[RootID].present)
      => (state' = stateReady /\ listItems' = contentCache[RootID].val
            /\ pending' = pending /\ listCalls' = listCalls) ]_vars

\* C7: a Retry in Error or Empty deletes the cache entry of the current folder
\* and no other, clears the error, moves to Loading and issues the fetch of that
\* folder; a Retry in any other state changes neither the cache nor the state.
C7_Retry ==
  [][ lastMsg' = "r" =>
        IF state \in {stateError, stateEmpty}
        THEN /\ state' = stateLoading
             /\ err' = "nil"
             /\ ~contentCache'[currentFolderID].present
             /\ \A f \in FolderIDs \ {currentFolderID} : contentCache'[f] = contentCache[f]
             /\ pending' = Append(pending, [cmd |-> "fetchContents", arg |-> currentFolderID])
             /\ currentFolderID' = currentFolderID
        ELSE /\ contentCache' = contentCache
             /\ state' = state
             /\ pending' = pending ]_vars

\* C7 witness: a Retry was accepted one level down
C7_Witness ==
  /\ lastMsg = "r"
  /\ state = stateLoading
  /\ currentFolderID = "1"
  /\ ~contentCache["1"].present
  /\ pending = << [cmd |-> "fetchContents", arg |-> "1"] >>

\* the stages at which a file can fail
FailStages == {"url", "conn", "length", "create", "write", "read"}

\* the errors collected for the file at position i
ErrorsOf(errors, i) == {k \in 1..Len(errors) : errors[k].file = i}

\* the messages sent on msgChan since the goroutine started on its file: those
\* received and the one it is blocked sending
Emitted == IF msgChan = NoMsg THEN delivered ELSE Append(delivered, msgChan)

\* C8: in a batch every file that failed, at whatever stage, has exactly one
\* collected error and every other file none; a failure is followed by the next
\* file; and the final message is sent only after every file was attempted, an
\* error message joining one error per failed file.
C8_BatchBestEffort ==
  tMode = "batch" =>
    /\ \A i \in 1..Len(tFiles) :
         Cardinality(ErrorsOf(batchErrors, i)) = IF outcome[i] \in FailStages THEN 1 ELSE 0
    /\ \A i \in 1..Len(tFiles) :
         /\ i < tIdx => outcome[i] # "pending"
         /\ outcome[i] \in FailStages => i < tIdx
    /\ tPc \in {"final", "sendFinal", "close", "done"} =>
         /\ attempted = 1..Len(tFiles)
         /\ tIdx = Len(tFiles) + 1
    /\ \A k \in 1..Len(Emitted) :
         Emitted[k].type = "batchDownloadErrorMsg" =>
           Len(Emitted[k].errs) = Cardinality({i \in 1..Len(tFiles) : outcome[i] \in FailStages})

\* C8 witness: of 3 files the 2nd failed its URL resolution; the 3rd was
\* downloaded and the final message reports 1 failure
C8_Witness ==
  /\ tMode = "batch"
  /\ tPc = "done"
  /\ outcome = << "ok", "url", "ok" >>
  /\ attempted = {1, 2, 3}
  /\ delivered[Len(delivered)].type = "batchDownloadErrorMsg"
  /\ Len(delivered[Len(delivered)].errs) = 1

\* C9: every progress sent for a file is a fraction in [0,1], the fractions
\* never decrease, and a completion comes right after a progress of 1.
C9_ProgressBound ==
  /\ \A k \in 1..Len(Emitted) :
       Emitted[k].type = "progressMsg" =>
         /\ Emitted[k].den > 0
         /\ 0 <= Emitted[k].num
         /\ Emitted[k].num <= Emitted[k].den
  /\ \A j, k \in 1..Len(Emitted) :
       (j < k /\ Emitted[j].type = "progressMsg" /\ Emitted[k].type = "progressMsg") =>
         /\ Emitted[j].den = Emitted[k].den
         /\ Emitted[j].num <= Emitted[k].num
  /\ \A k \in 1..Len(Emitted) :
       Emitted[k].type = "downloadCompleteMsg" =>
         /\ k > 1
         /\ Emitted[k-1].type = "progressMsg"
         /\ Emitted[k-1].num = Emitted[k-1].den

\* C9 witness: a single transfer of 3 units in two chunks, then the completion
C9_Witness ==
  /\ tMode = "single"
  /\ tPc = "done"
  /\ Len(delivered) = 3
  /\ delivered[1].type = "progressMsg" /\ delivered[1].num = 2 /\ delivered[1].den = 3
  /\ delivered[2].type = "progressMsg" /\ delivered[2].num = 3
  /\ delivered[3].type = "downloadCompleteMsg"

\* C10: a file is streamed only with a positive content length; a file refused
\* for its content length has no progress and no completion sent and no local
\* file; a single transfer then sends the failure alone, a batch collects one
\* error for the file.
C10_Untrackable ==
  /\ tPc \in {"Create", "Read", "sendProgress", "checkReadErr", "sendComplete"} => contentLength > 0
  /\ \A i \in 1..Len(tFiles) :
       outcome[i] = "length" =>
         /\ i \notin created
         /\ \A k \in 1..Len(Emitted) :
              Emitted[k].file = i => Emitted[k].type \notin {"progressMsg", "downloadCompleteMsg"}
         /\ tMode = "single" =>
              /\ Len(Emitted) = 1
              /\ Emitted[1].type = "downloadErrorMsg"
              /\ Emitted[1].errs = << [file |-> i, kind |-> "length"] >>
         /\ tMode = "batch" =>
              \E k \in 1..Len(batchErrors) :
                /\ batchErrors[k] = [file |-> i, kind |-> "length"]
                /\ ErrorsOf(batchErrors, i) = {k}

\* C10 witness: a single transfer whose response declared length 0 has ended
C10_Witness ==
  /\ tMode = "single"
  /\ tPc = "done"
  /\ contentLength = 0
  /\ outcome = << "length" >>
  /\ delivered[1].type = "downloadErrorMsg"

\* C11: a key of the Quit binding, pressed in whatever state and also while
\* the list is filtering, sets quitting.
C11_QuitFromEveryState == [][ lastMsg' \in {"q", "filterQuit"} => quitting' ]_vars

\* C12: once the state is Downloading, the transfer's completion or failure
\* reaches Update, which moves to Ready or Error, unless the user quits first.
C12_DownloadingEnds ==
  (state = stateDownloading) ~> (state \in {stateReady, stateError} \/ quitting)

\* the list shows the cache entry of the current folder
ShowsCurrentFolder ==
  /\ contentCache[currentFolderID].present
  /\ listItems = contentCache[currentFolderID].val

\* C13: a step that makes another folder the current one and ends in Ready
\* (Enter or Back served from the cache) shows the cached items of that folder.
C13_ReadyShowsCurrentFolder ==
  [][ (state' = stateReady /\ currentFolderID' # currentFolderID) => ShowsCurrentFolder' ]_vars

\* C14: the last element of the folder-id stack is the current folder id.
C14_StackEndsAtCurrent == folderHistory[Len(folderHistory)] = currentFolderID

\* an Enter command would be accepted for a folder
EnterAccepted ==
  /\ ~quitting
  /\ filterState # "Filtering"
  /\ state = stateReady
  /\ HasSelected(listItems, listIndex)
  /\ listItems[listIndex].itemType = TypeFolder

\* current folder id, stack and path after Enter on the selected folder and
\* then Back, accepted once the state is Ready again
EnterThenBack ==
  LET hist1 == EnterHistory(folderHistory, currentFolderID)
      path1 == EnterPath(currentFolderPath, listItems[listIndex].title)
      hist2 == BackHistory(hist1)
  IN  << BackFolderID(hist2), hist2, BackPath(path1) >>

\* C15: Enter on a folder followed by Back restores the current folder id, the
\* stack and the path that held before the Enter.
C15_BackReturnsToParent ==
  EnterAccepted => EnterThenBack = << currentFolderID, folderHistory, currentFolderPath >>

BatchTerminal == {"batchDownloadErrorMsg", "batchDownloadCompleteMsg"}

\* the positions of the terminal events among the messages sent
TerminalsSent == {k \in 1..Len(Emitted) : Emitted[k].type \in BatchTerminal}

\* C17: a batch sends, besides progress, one terminal event and no other
\* completion or failure event; the terminal event comes after every file was
\* processed and is the failure joining all collected errors, or, with no
\* error, the success counting the files.
C17_BatchOneTerminalEvent ==
  tMode = "batch" =>
    /\ \A k \in 1..Len(Emitted) : Emitted[k].type \in BatchTerminal \cup {"progressMsg"}
    /\ Cardinality(TerminalsSent) <= 1
    /\ tPc \in {"close", "done"} => Cardinality(TerminalsSent) = 1
    /\ \A k \in TerminalsSent :
         /\ tIdx = Len(tFiles) + 1
         /\ \A i \in 1..Len(tFiles) : outcome[i] # "pending"
         /\ Emitted[k] = IF Len(batchErrors) > 0
                         THEN Msg("batchDownloadErrorMsg", 0, 0, batchErrors)
                         ELSE Msg("batchDownloadCompleteMsg", Len(tFiles), 0, << >>)

\* the events a transfer sends on msgChan
TransferEvents ==
  {"progressMsg", "downloadCompleteMsg", "downloadErrorMsg",
   "batchDownloadCompleteMsg", "batchDownloadErrorMsg"}

\* a step in which a download command ends and its message is handled by Update
DownloadCommandEnds ==
  \E i \in 1..Len(pending) :
    /\ pending[i].cmd \in {"cmdDownloadFile", "cmdBatchDownloadFiles"}
    /\ pending' = RemoveAt(pending, i)

\* C18: what Update handles when a download command ends is an event of the
\* transfer, so that the events reach Update, the progress before the end.
C18_TransferEventsReachUpdate ==
  [][ DownloadCommandEnds => lastMsg' \in TransferEvents ]_vars

\* the fetch of folder f ends in this step with a contentsMsg
FetchInstalled(f) ==
  /\ lastMsg' = "contentsMsg"
  /\ \E i \in 1..Len(pending) :
       /\ pending[i] = [cmd |-> "fetchContents", arg |-> f]
       /\ pending' = RemoveAt(pending, i)

\* C19: the listing a fetch of folder f ends with is stored under f and under
\* no other id, so every cache entry holds the listing of its own folder.
C19_FetchAppliedToItsFolder ==
  /\ [][ \A f \in FolderIDs :
           FetchInstalled(f) =>
             /\ contentCache'[f] = Present(RemoteContents[f])
             /\ \A g \in FolderIDs \ {f} : contentCache'[g] = contentCache[g] ]_vars
  /\ [](\A f \in FolderIDs :
          contentCache[f].present => contentCache[f].val = RemoteContents[f])

\* C19 witness: two levels down the fetch of folder "3" was stored, the
\* cache holding the root and folder "1" as well
C19_Witness ==
  /\ lastMsg = "contentsMsg"
  /\ currentFolderID = "3"
  /\ contentCache["0"].present
  /\ contentCache["1"].present
  /\ contentCache["3"] = Present(RemoteContents["3"])

\* C20: in Ready every displayed file has its marked flag set exactly when
\* its id is in the Selection Set.
C20_MarkedFlagMatchesSelection ==
  state = stateReady =>
    \A i \in 1..Len(listItems) :
      listItems[i].itemType = TypeFile =>
        (listItems[i].marked <=> markedFiles[listItems[i].id].present)

\* C21: every item of the Selection Set is a file, kept under its own id; a
\* Mark key outside Ready, without a selected item, or on a folder or torrent
\* leaves the Selection Set as it is.
C21_OnlyFilesMarked ==
  /\ [](\A k \in DOMAIN markedFiles :
          markedFiles[k].present =>
            (markedFiles[k].val.itemType = TypeFile /\ markedFiles[k].val.id = k))
  /\ [][ (lastMsg' = "m" /\ ~MarkAccepted) => markedFiles' = markedFiles ]_vars

\* C21 witness: with file "11" marked, a Mark key was pressed on a folder
C21_Witness ==
  /\ lastMsg = "m"
  /\ state = stateReady
  /\ HasSelected(listItems, listIndex)
  /\ listItems[listIndex].itemType = TypeFolder
  /\ Members(markedFiles) = {"11"}

\* C22: a step in which Update handles the completion or the failure of a
\* transfer, single or batch, leaves the Selection Set as it is.
C22_SelectionNotCleared ==
  [][ lastMsg' \in TransferSuccess \cup TransferFailure => markedFiles' = markedFiles ]_vars

\* C22 witness: the success of a batch of two marked files was handled
C22_Witness ==
  /\ lastMsg = "batchDownloadCompleteMsg"
  /\ state = stateReady
  /\ Members(markedFiles) = {"10", "11"}

\* C23: in Ready with files marked, a Copy-link or an Open-in-player key leaves
\* the state, the stack, the cache, the Selection Set and the error as they
\* are, and starts no command and no transfer.
C23_FileActionRefusedWhileMarked ==
  [][ (lastMsg' \in {"c", "o"} /\ state = stateReady /\ MapLen(markedFiles) > 0)
        => UNCHANGED << state, folderHistory, contentCache, markedFiles, err,
                        pending, transfers >> ]_vars

\* C23 witness: Copy-link was pressed on a file while file "10" was marked
C23_Witness ==
  /\ lastMsg = "c"
  /\ state = stateReady
  /\ Members(markedFiles) = {"10"}
  /\ HasSelected(listItems, listIndex)
  /\ listItems[listIndex].itemType = TypeFile
  /\ pending = << >>

\* C24: a folder id that is in the cache stays there with the same snapshot in
\* every step, except a Retry accepted with that folder current, which removes
\* that entry only and leaves every other entry as it is.
C24_CacheEntriesPersist ==
  [][ \A f \in FolderIDs :
        contentCache[f].present =>
          \/ contentCache'[f] = contentCache[f]
          \/ /\ lastMsg' = "r"
             /\ RetryGuard(state)
             /\ f = currentFolderID
             /\ ~contentCache'[f].present
             /\ \A g \in FolderIDs \ {f} : contentCache'[g] = contentCache[g] ]_vars

\* the fetch of folder f ends in this step with the message type
FetchEnds(f, type) ==
  /\ lastMsg' = type
  /\ \E i \in 1..Len(pending) :
       /\ pending[i] = [cmd |-> "fetchContents", arg |-> f]
       /\ pending' = RemoveAt(pending, i)

\* C25: a fetch that succeeds with items stores them under the current folder
\* id, touches no other entry and moves to Ready; one that succeeds without
\* items moves to Empty and one that fails moves to Error with the error
\* recorded, both leaving the cache as it is.
C25_FetchOutcomes ==
  [][ \A f \in FolderIDs :
        /\ FetchEnds(f, "contentsMsg") =>
             /\ state' = stateReady
             /\ Len(RemoteContents[f]) > 0
             /\ contentCache' = [contentCache EXCEPT ![currentFolderID] = Present(RemoteContents[f])]
        /\ FetchEnds(f, "emptyContentsMsg") =>
             /\ state' = stateEmpty
             /\ contentCache' = contentCache
        /\ FetchEnds(f, "errMsg") =>
             /\ state' = stateError
             /\ err' = "fetch"
             /\ contentCache' = contentCache ]_vars

\* C25 witness: with the root cached, the fetch of folder "1" came back
\* without items
C25_Witness ==
  /\ lastMsg = "emptyContentsMsg"
  /\ state = stateEmpty
  /\ currentFolderID = "1"
  /\ contentCache[RootID].present
  /\ ~contentCache["1"].present

\* C26: in every reachable state the error is present exactly when the state
\* is Error: Error shows a message, and no error is left over in Loading,
\* Ready, Downloading or Empty.
C26_ErrorIffErrorState == (err # "nil") <=> (state = stateError)

\* C26 witness: Retry was pressed in Error, after a Copy-link that failed on
\* the listed root; the error is gone in Loading
C26_Witness ==
  /\ lastMsg = "r"
  /\ state = stateLoading
  /\ err = "nil"
  /\ currentFolderID = RootID
  /\ Len(listItems) = 2
  /\ listCalls[RootID] = 0

\* the files of the sequence files are exactly the members of the Selection
\* Set, each once
ExactlyMembers(files) ==
  /\ Len(files) = Cardinality(Members(markedFiles))
  /\ {files[i].id : i \in 1..Len(files)} = Members(markedFiles)

\* C27: a Download key in Ready with files marked starts one batch transfer of
\* exactly the marked files and moves to Downloading; with none marked and a
\* file selected it starts one transfer of that file and moves to Downloading;
\* in every other case it starts nothing and leaves the state as it is.
C27_DownloadDispatch ==
  [][ lastMsg' = "d" =>
        IF state = stateReady /\ Members(markedFiles) # {}
        THEN /\ state' = stateDownloading
             /\ transfers' = transfers + 1
             /\ Len(pending') = Len(pending) + 1
             /\ SubSeq(pending', 1, Len(pending)) = pending
             /\ pending'[Len(pending')].cmd = "cmdBatchDownloadFiles"
             /\ ExactlyMembers(pending'[Len(pending')].arg)
        ELSE IF /\ state = stateReady
                /\ HasSelected(listItems, listIndex)
                /\ listItems[listIndex].itemType = TypeFile
        THEN /\ state' = stateDownloading
             /\ transfers' = transfers + 1
             /\ pending' = Append(pending, [cmd |-> "cmdDownloadFile",
                                             arg |-> listItems[listIndex].id])
        ELSE /\ state' = state
             /\ transfers' = transfers
             /\ pending' = pending ]_vars

\* C27 witness: Download was pressed with files "10" and "11" marked; the
\* batch command of the two is in flight
C27_Witness ==
  /\ lastMsg = "d"
  /\ state = stateDownloading
  /\ Members(markedFiles) = {"10", "11"}
  /\ Len(pending) = 1
  /\ pending[1].cmd = "cmdBatchDownloadFiles"
  /\ Len(pending[1].arg) = 2

\* a Copy-link or an Open-in-player command is in flight
FileActionPending ==
  \E i \in 1..Len(pending) : pending[i].cmd \in {"cmdCopyURL", "cmdOpenMPV"}

\* this step is a Copy-link or an Open-in-player key in Ready, no file marked
\* and a file selected
FileActionStarts ==
  /\ lastMsg' \in {"c", "o"}
  /\ state = stateReady
  /\ Members(markedFiles) = {}
  /\ HasSelected(listItems, listIndex)
  /\ listItems[listIndex].itemType = TypeFile

\* the end of the command: Ready without an error, or Error with one
FileActionEnded ==
  /\ ~FileActionPending
  /\ \/ state = stateReady /\ err = "nil"
     \/ state = stateError /\ err # "nil"

\* C28: a Copy-link or an Open-in-player key in Ready with no file marked and a
\* file selected moves to Loading and starts one command, which resolves the
\* URL of that file; unless the program is quit, the command ends in Ready
\* with the error cleared or in Error with the error set; from the key to the
\* end of the command the stack, the cache and the Selection Set stay as they
\* are.
C28_FileAction ==
  /\ [][ FileActionStarts =>
           /\ state' = stateLoading
           /\ pending' = Append(pending,
                  [cmd |-> IF lastMsg' = "c" THEN "cmdCopyURL" ELSE "cmdOpenMPV",
                   arg |-> listItems[listIndex].id]) ]_vars
  /\ FileActionPending ~> (FileActionEnded \/ quitting)
  /\ [][ (FileActionStarts \/ FileActionPending) =>
           UNCHANGED << folderHistory, contentCache, markedFiles >> ]_vars

\* the keys of Enter, Back, Mark, Download, Copy-link and Open-in-player
GuardedKeys == {"enter", "m", "d", "c", "o"} \cup BackKeys

\* C29: outside Ready the keys of Enter, Back, Mark, Download, Copy-link and
\* Open-in-player leave the state, the stack, the current folder id, the path,
\* the cache and the Selection Set as they are; in Ready, Enter on a file or a
\* torrent leaves the stack, the current folder id and the path as they are.
C29_GuardedByReady ==
  [][ /\ (lastMsg' \in GuardedKeys /\ state # stateReady) =>
           UNCHANGED << state, folderHistory, currentFolderID, currentFolderPath,
                        contentCache, markedFiles >>
      /\ ( /\ lastMsg' = "enter"
           /\ state = stateReady
           /\ HasSelected(listItems, listIndex)
           /\ listItems[listIndex].itemType \in {TypeFile, TypeTorrent} ) =>
           UNCHANGED << folderHistory, currentFolderID, currentFolderPath >> ]_vars

\* C30: no step of a transfer waits on the network forever: the URL resolution,
\* the request of the download and every read of the stream come to an end,
\* by an answer or by a failure.
C30_NetworkStepsEnd ==
  /\ (tPc = "FetchFile") ~> (tPc # "FetchFile")
  /\ (tPc = "Get") ~> (tPc # "Get")
  /\ (tPc = "Read") ~> (tPc # "Read")

\* ------------------------------------------------------------- the client and
\* the lookup on their own

\* goroutines calling the API methods of one Client, no program around it
InitClient == InitUI /\ TransferIdle /\ transfers = 0 /\ InitClientVars /\ LookupIdle

NextClient ==
  \/ \E g \in Goroutines : ApiLock(g)
  \/ \E g \in Goroutines : ApiFirst(g)
  \/ \E g \in Goroutines : ApiRefreshStart(g)
  \/ \E g \in Goroutines : ApiRefreshResponse(g)
  \/ \E g \in Goroutines : ApiCallback(g)
  \/ \E g \in Goroutines : ApiRetry(g)
  \/ \E g \in Goroutines : ApiUnlock(g)

SpecClient == InitClient /\ [][NextClient]_vars

\* one process calling FetchObjectDetails again and again
InitLookup == InitUI /\ TransferIdle /\ transfers = 0 /\ ClientIdle /\ InitLookupVars

NextLookup == FetchObjectDetails \/ AccountChanges

SpecLookup == InitLookup /\ [][NextLookup]_vars

\* ------------------------------------------------------------- claims on the
\* client

\* the first attempt of g failed with the error by which apiRequest knows an
\* expired access token
FirstExpired(g) ==
  firstErr[g].type = "APIError" /\ firstErr[g].errorType = "expired_token"

\* C31: a call of apiRequest sends at most two requests and refreshes at most
\* once; when it returns after a first attempt that failed on an expired
\* token, it has refreshed once, and either the refresh succeeded and the
\* request went out a second time with the access token of the refresh, or
\* the refresh failed, its error is the one returned and the request went out
\* once.
C31_RefreshAndRetryOnce ==
  \A g \in Goroutines :
    /\ Len(sentTokens[g]) <= 2
    /\ refreshCalls[g] <= 1
    /\ (cpc[g] = "unlock" /\ FirstExpired(g)) =>
         /\ refreshCalls[g] = 1
         /\ IF refreshErr[g] = NoErr
            THEN /\ Len(sentTokens[g]) = 2
                 /\ sentTokens[g][2] = refreshResp[g].access_token
                 /\ sentTokens[g][2] = token.AccessToken
            ELSE /\ Len(sentTokens[g]) = 1
                 /\ apiErr[g] = refreshErr[g]

\* C31 witness: a call is about to return after an expired first attempt, a
\* refresh that succeeded and a second attempt with another token than the
\* first
C31_Witness ==
  \E g \in Goroutines :
    /\ cpc[g] = "unlock"
    /\ FirstExpired(g)
    /\ refreshErr[g] = NoErr
    /\ Len(sentTokens[g]) = 2
    /\ sentTokens[g][1] # sentTokens[g][2]

\* g is past a refresh that succeeded and still inside its call
Refreshed(g) ==
  /\ cpc[g] \in {"callback", "retry", "unlock"}
  /\ refreshCalls[g] = 1
  /\ refreshErr[g] = NoErr

\* C32: after a refresh that succeeded the access token is the one of the
\* response, and the refresh token is the one of the response when the
\* response has one and the one from before the refresh when it has none.
C32_TokenAfterRefresh ==
  \A g \in Goroutines :
    Refreshed(g) =>
      /\ token.AccessToken = refreshResp[g].access_token
      /\ token.RefreshToken = IF refreshResp[g].refresh_token # ""
                              THEN refreshResp[g].refresh_token
                              ELSE refreshToken[g]

\* the part of C32 on the access token and on a response without a refresh
\* token
C32_AccessTokenStored ==
  \A g \in Goroutines :
    Refreshed(g) =>
      /\ token.AccessToken = refreshResp[g].access_token
      /\ refreshResp[g].refresh_token = "" => token.RefreshToken = refreshToken[g]

\* the goroutines inside apiRequest, and those inside its refresh
InApiRequest == {g \in Goroutines : cpc[g] # "idle"}
InRefresh == {g \in Goroutines : cpc[g] \in {"refresh", "refreshing", "callback"}}

\* C33: at most one goroutine is inside apiRequest, its refresh and retry
\* included, and it holds the mutex; at most one refresh is in progress; every
\* request was sent with an access token the service handed out whole, the
\* first of a call with the token as the call found it and the second with
\* the token of the refresh of that call.
C33_RequestsExclusive ==
  /\ Cardinality(InApiRequest) <= 1
  /\ Cardinality(InRefresh) <= 1
  /\ \A g \in InApiRequest : mu = g
  /\ \A g \in Goroutines :
       /\ \A i \in 1..Len(sentTokens[g]) : sentTokens[g][i] \in issued
       /\ Len(sentTokens[g]) = 2 => sentTokens[g][2] = refreshResp[g].access_token

\* C33 witness: a goroutine is about to send its second attempt with the
\* token a2 of its refresh, its first attempt went out with a1, the token of
\* an earlier refresh; the other goroutines wait for the mutex or are outside
C33_Witness ==
  \E g \in Goroutines :
    /\ cpc[g] = "retry"
    /\ mu = g
    /\ sentTokens[g] = << "a1" >>
    /\ token.AccessToken = "a2"
    /\ \A h \in Goroutines \ {g} : cpc[h] = "idle"

\* the refresh of g got an answer without error that holds an access token
RefreshSucceeded(g) ==
  /\ refreshCalls[g] = 1
  /\ refreshResp[g].status = 200
  /\ refreshResp[g].json
  /\ refreshResp[g].access_token # ""

C39_FailedRefreshes ==
  \E g \in Goroutines :
    /\ onTokenRefresh
    /\ cpc[g] = "unlock"
    /\ refreshCalls[g] = 1
    /\ refreshResp[g].status = 200 /\ refreshResp[g].json
    /\ refreshResp[g].access_token = ""
    /\ callbackRuns[g] = 0

\* ------------------------------------------------------------- claims on the
\* lookup

\* C34: once a call of FetchObjectDetails has returned without error, every
\* later call returns the names that call returned, without error, and issues
\* no ListContents call, whatever the account holds.
C34_LookupFetchedOnce ==
  [][ (firstNames.returned /\ lookupCalls' = lookupCalls + 1) =>
        /\ ~lookupErr'
        /\ lookupNames' = firstNames.names
        /\ lookupListed' = 0 ]_vars

\* the same for a first call that returned at least one name
C34_NonEmptyFetchedOnce ==
  [][ (firstNames.returned /\ firstNames.names # << >>
         /\ lookupCalls' = lookupCalls + 1) =>
        /\ ~lookupErr'
        /\ lookupNames' = firstNames.names
        /\ lookupListed' = 0 ]_vars

\* a later call was served from the tables although the account has changed
C34_ServedFromTables ==
  /\ lookupCalls > 1
  /\ firstNames.returned
  /\ lookupListed = 0
  /\ lookupNames # GetFolderContents(account, {}, "0").names

\* ------------------------------------------------------------- claims on
\* fetches, Back and failed Enter

\* the fetchContents commands that run
FetchesInFlight == {i \in 1..Len(pending) : pending[i].cmd = "fetchContents"}

\* the messages fetchContents ends in
FetchResults == {"contentsMsg", "errMsg", "emptyContentsMsg"}

\* C35: at most one fetchContents command runs, one runs only in state
\* Loading, and the message of one is handled in state Loading only.
C35_OneFetchOutstanding ==
  /\ [](/\ Cardinality(FetchesInFlight) <= 1
        /\ FetchesInFlight # {} => state = stateLoading)
  /\ [][lastMsg' \in FetchResults => state = stateLoading]_vars

\* C35 witness: the fetch of folder "1", started by Enter, is in flight
C35_Witness ==
  /\ state = stateLoading
  /\ FetchesInFlight # {}
  /\ \E i \in FetchesInFlight : pending[i].arg = "1"
  /\ lastMsg = "enter"

\* the step is a Back key that Update accepts
BackAccepted == lastMsg' \in BackKeys /\ BackGuard(state, folderHistory)

\* C36: in state Ready every folder id of the stack has a cache entry, and a
\* Back that is accepted starts no command and does not move to Loading.
C36_BackFromCache ==
  /\ [](state = stateReady =>
          \A i \in 1..Len(folderHistory) : contentCache[folderHistory[i]].present)
  /\ [][BackAccepted => (pending' = pending /\ state' = stateReady)]_vars

\* C36 witness: Back was accepted two folders below the root and the list
\* shows the cached contents of the folder it went to
C36_Witness ==
  /\ lastMsg \in BackKeys
  /\ state = stateReady
  /\ Len(folderHistory) = 2
  /\ contentCache["3"].present
  /\ listItems = contentCache[currentFolderID].val
  /\ pending = << >>

\* where the program is: the state, the stack, the current folder and its path
Place == << state, folderHistory, currentFolderID, currentFolderPath >>

BeforeStreaming == {"url", "conn", "length"}

\* C38: a file of a single or batch transfer that failed at URL resolution,
\* at the HTTP connection or at the content-length check has no local file
\* made by os.Create; a local file is made only for the file the goroutine is
\* at, at os.Create, which comes after the three, with a content length that
\* passed the check.
C38_NoFileBeforeStreaming ==
  /\ [](\A i \in DOMAIN outcome : outcome[i] \in BeforeStreaming => i \notin created)
  /\ [][created' # created =>
          /\ tPc = "Create"
          /\ outcome[tIdx] = "pending"
          /\ contentLength > 0
          /\ created' = created \cup {tIdx}]_vars

\* C38 witness: in a batch the first file failed at the content-length check
\* and has no local file, the second has one
C38_Witness ==
  /\ tMode = "batch"
  /\ Len(tFiles) >= 2
  /\ outcome[1] = "length"
  /\ 1 \notin created
  /\ 2 \in created

\* a single transfer failed at the HTTP connection, no local file
C38_SingleFailed ==
  /\ tMode = "single"
  /\ outcome[1] = "conn"
  /\ created = {}
====
